---- MODULE Spec2Model ----
(***************************************************************************)
(* Model of server.py: the websocket_endpoint coroutine of the Spectre     *)
(* relay server.  Every connection runs websocket_endpoint as one asyncio  *)
(* task; a task runs without interruption from one await to the next, so   *)
(* each action below is the code between two suspension points.  A         *)
(* send_text hands its frame to the transport when it is called and the    *)
(* task is suspended in it; whether it returns or raises is known when     *)
(* the task resumes.  receive_text and accept suspend the task until the   *)
(* frame (or the closure) arrives.                                         *)
(***************************************************************************)
EXTENDS Integers, Sequences, FiniteSets, TLC

\* ---------------------------------------------------------------- bounds
NConn == 3          \* connections (WebSocket objects) ever opened

\* Python's None for a WebSocket slot or a session reference
None == 0

\* close(code=1008), server.py lines 57, 81, 86
PolicyViolation == 1008

\* default of message.get("health", 100), server.py line 113
DefaultHealth == 100

\* ---------------------------------------------------------------- inputs
\* session_id path segments, as sequences of characters
RawIds == { <<"n", "x">>, <<"N", "x">> }

\* client_type path segments
ClientTypes == { "player1", "spectre", "Player1", "admin" }

\* text frames a client can send: valid says whether json.loads succeeds,
\* msg is the decoded dictionary
Frames ==
  { [valid |-> FALSE],
    [valid |-> TRUE, msg |-> [player_pos |-> <<3, 4>>, health |-> 80]],
    [valid |-> TRUE, msg |-> [action |-> "reveal", data |-> {<<"x", 3>>}]],
    [valid |-> TRUE, msg |-> <<>>] }

VARIABLES
  pc,               \* the await each connection's task is suspended in
  client_type,      \* the client_type argument of each task
  raw_id,           \* the session_id path segment of a connection being admitted
  session_id,       \* the local session_id after line 52
  session,          \* the local `session` (bound at lines 83, 97 and 134)
  closed,           \* the client has closed its side of the transport
  active_sessions,  \* the global dictionary: session id -> session object
  heap,             \* the session objects alive, by reference
  last,             \* what the last step sent, which handler it ran, what it closed
  recv,             \* the frame receive_text returned in the last step
  sending           \* the connection the pending send_text of a task is addressed to

vars == << pc, client_type, raw_id, session_id, session, closed,
           active_sessions, heap, last, recv, sending >>

\* the connections of the run, numbered in the order in which they open
Conn == DOMAIN pc

\* ------------------------------------------------------------- helpers
\* a normalisation that is left out
UpperIdentity(s) == s

\* str.upper(), character by character
UpperChar(ch) ==
  CASE ch = "n" -> "N"
    [] ch = "x" -> "X"
    [] OTHER -> ch

Upper(s) == [i \in DOMAIN s |-> UpperChar(s[i])]

\* a lookup that never finds the key
GetDefault(d, key, default) == default

\* dict.get(key, default)
Get(d, key, default) == IF key \in DOMAIN d THEN d[key] ELSE default

\* active_sessions.get(session_id)
Lookup(sid) == IF sid \in DOMAIN active_sessions THEN active_sessions[sid] ELSE None

\* active_sessions.pop(session_id, None)
Pop(sid) == [k \in (DOMAIN active_sessions) \ {sid} |-> active_sessions[k]]

\* str.lower() on the client types of the model
LowerCase(ct) == IF ct = "Player1" THEN "player1" ELSE ct

\* a role test that ignores case
ValidRoleAnyCase(ct) == LowerCase(ct) \in {"player1", "spectre"}

\* client_type not in ["player1", "spectre"], negated
ValidRole(ct) == ct \in {"player1", "spectre"}

\* the dictionary literal of lines 65-69
NewSession(ws) ==
  [player1 |-> ws, spectre |-> None, player_pos |-> <<0, 0>>, spectre_action |-> "None"]

\* an occupied test that is left out
SlotNeverTaken(rec) == FALSE

\* session["spectre"] is not None, line 84
SlotTaken(rec) == rec.spectre # None

\* the coroutine has returned or an exception has left it
Ended == {"done"}

\* the task is suspended in a send_text: of the error (lines 80, 85), of
\* spectre_status connected (93), of a relayed event (110, 123), of
\* game_over (141), of spectre_status disconnected (149)
InSend == {"rejclose", "notify", "forward", "gameover", "farewell"}

\* the transport of connection t can still carry a frame to its client
Up(t) == pc[t] \notin ({"idle"} \cup Ended) /\ ~closed[t]

\* How a pending send_text can end when its task resumes.  On an open
\* transport it returns.  On a transport the client has closed, or whose
\* task has ended, it returns (the frame is dropped), raises
\* WebSocketDisconnect or raises another exception, depending on the ASGI
\* server.
SendResults(t) == IF Up(t) THEN {"ok"} ELSE {"ok", "disconnect", "error"}

\* frames whose relay types are exchanged
EventMislabelled(type, from, to, body) ==
  [type |-> CASE type = "player_state" -> "spectre_action"
              [] type = "spectre_action" -> "player_state"
              [] OTHER -> type,
   from |-> from, to |-> to, body |-> body]

\* send_text(json.dumps({"type": type, ...})) called by the task of `from`
\* on the connection `to`
Event(type, from, to, body) ==
  [type |-> type, from |-> from, to |-> to, body |-> body]

\* no handler ran in the step
NoExit == [c |-> None, why |-> "none", raised |-> FALSE]

\* an except block of connection c ran because of why
Exit(c, why) == [c |-> c, why |-> why, raised |-> FALSE]

\* an exception left the coroutine of connection c
Raised(exit, c) == [c |-> c, why |-> exit.why, raised |-> TRUE]

\* no close frame was sent in the step
NoClose == [c |-> None, code |-> 0]

Quiet == [out |-> <<>>, exit |-> NoExit, close |-> NoClose]

\* receive_text returned no frame in the step
NoFrame == [c |-> None, frame |-> [valid |-> FALSE]]

\* reference counting: a session object lives while active_sessions or the
\* `session` local of a task that has not ended refers to it
Collect(hp, reg, sess) ==
  [r \in {k \in DOMAIN hp : \/ \E sid \in DOMAIN reg : reg[sid] = k
                            \/ \E c \in Conn : sess[c] = k} |-> hp[r]]

\* One step of the task of connection c, from the await it was suspended
\* in to the next one: the task goes to npc with its `session` local at
\* sess, the dictionary at reg, the session objects at hp; sent are the
\* send_text calls of the step, the last of which the task is suspended
\* in when npc is in InSend.  The locals of a task that has ended are gone.
Step(c, npc, sess, reg, hp, sent, exit) ==
  /\ pc' = [pc EXCEPT ![c] = npc]
  /\ raw_id' = [raw_id EXCEPT ![c] = <<>>]
  /\ session_id' = IF npc \in Ended THEN [session_id EXCEPT ![c] = <<>>] ELSE session_id
  /\ session' = [session EXCEPT ![c] = IF npc \in Ended THEN None ELSE sess]
  /\ closed' = IF npc \in Ended THEN [closed EXCEPT ![c] = FALSE] ELSE closed
  /\ active_sessions' = reg
  /\ heap' = Collect(hp, reg, session')
  /\ last' = [out |-> sent, exit |-> exit, close |-> NoClose]
  /\ sending' = [sending EXCEPT ![c] = IF npc \in InSend THEN sent[Len(sent)].to ELSE None]
  /\ UNCHANGED client_type

\* ------------------------------------------------------------- handlers
\* a disconnect handler that ends the session whatever the role
DisconnectHandlerPops(c, why) ==
  Step(c, "done", None, Pop(session_id[c]), heap, <<>>, Exit(c, why))

\* except WebSocketDisconnect, lines 130-149, up to the await of line 141
\* or 149 or to the end of the coroutine
DisconnectHandler(c, why) ==
  LET s == Lookup(session_id[c]) IN
  IF s = None
    THEN Step(c, "done", None, active_sessions, heap, <<>>, Exit(c, why))
    ELSE IF client_type[c] = "player1"
      THEN IF heap[s].spectre # None
             THEN Step(c, "gameover", s, active_sessions, heap,
                       << Event("game_over", c, heap[s].spectre, <<>>) >>, Exit(c, why))
             ELSE Step(c, "done", None, Pop(session_id[c]), heap, <<>>, Exit(c, why))
      ELSE LET hq == [heap EXCEPT ![s].spectre = None] IN
           IF hq[s].player1 # None
             THEN Step(c, "farewell", s, active_sessions, hq,
                       << Event("spectre_status", c, hq[s].player1, "disconnected") >>,
                       Exit(c, why))
             ELSE Step(c, "done", None, active_sessions, hq, <<>>, Exit(c, why))

\* except Exception, lines 151-160
ExceptionHandler(c, why) ==
  IF session_id[c] \in DOMAIN active_sessions
    THEN IF client_type[c] = "player1"
           THEN Step(c, "done", None, Pop(session_id[c]), heap, <<>>, Exit(c, why))
           ELSE Step(c, "done", None, active_sessions,
                     [heap EXCEPT ![active_sessions[session_id[c]]].spectre = None],
                     <<>>, Exit(c, why))
    ELSE Step(c, "done", None, active_sessions, heap, <<>>, Exit(c, why))

\* -------------------------------------------------------------- actions
\* the process starts with an empty active_sessions (line 27); n clients
\* are going to connect
InitN(n) ==
  /\ pc = [c \in 1..n |-> "idle"]
  /\ client_type = [c \in 1..n |-> "player1"]
  /\ raw_id = [c \in 1..n |-> <<>>]
  /\ session_id = [c \in 1..n |-> <<>>]
  /\ session = [c \in 1..n |-> None]
  /\ closed = [c \in 1..n |-> FALSE]
  /\ active_sessions = <<>>
  /\ heap = <<>>
  /\ last = Quiet
  /\ recv = NoFrame
  /\ sending = [c \in 1..n |-> None]

Init == InitN(NConn)

\* one more client, from the moment at which the first client, a player1,
\* has created the session NX and is in its relay loop
InitWide ==
  /\ pc = [c \in 1..(NConn + 1) |-> IF c = 1 THEN "relay" ELSE "idle"]
  /\ client_type = [c \in 1..(NConn + 1) |-> "player1"]
  /\ raw_id = [c \in 1..(NConn + 1) |-> <<>>]
  /\ session_id = [c \in 1..(NConn + 1) |-> IF c = 1 THEN Upper(<<"n", "x">>) ELSE <<>>]
  /\ session = [c \in 1..(NConn + 1) |-> IF c = 1 THEN 1 ELSE None]
  /\ closed = [c \in 1..(NConn + 1) |-> FALSE]
  /\ active_sessions = (Upper(<<"n", "x">>) :> 1)
  /\ heap = (1 :> NewSession(1))
  /\ last = Quiet
  /\ recv = NoFrame
  /\ sending = [c \in 1..(NConn + 1) |-> None]

\* lines 47-60: a client opens /ws/{raw}/{ct}; the task is suspended in
\* accept(), or in close(code=1008) when the role is not valid
Connect(c, raw, ct) ==
  /\ pc[c] = "idle"
  /\ c > 1 => pc[c - 1] # "idle"
  /\ client_type' = [client_type EXCEPT ![c] = ct]
  /\ session_id' = [session_id EXCEPT ![c] = Upper(raw)]
  /\ IF ValidRole(ct)
       THEN /\ pc' = [pc EXCEPT ![c] = "accepting"]
            /\ raw_id' = [raw_id EXCEPT ![c] = raw]
            /\ last' = Quiet
       ELSE /\ pc' = [pc EXCEPT ![c] = "closing"]
            /\ last' = [Quiet EXCEPT !.close = [c |-> c, code |-> PolicyViolation]]
            /\ UNCHANGED raw_id
  /\ recv' = NoFrame
  /\ UNCHANGED << session, closed, active_sessions, heap, sending >>

\* lines 63-74 and 96-100: accept() has returned for a player1
PlayerJoin(c) ==
  /\ pc[c] = "accepting"
  /\ client_type[c] = "player1"
  /\ recv' = NoFrame
  /\ IF session_id[c] \notin DOMAIN active_sessions
       THEN Step(c, "relay", c, active_sessions @@ (session_id[c] :> c),
                 heap @@ (c :> NewSession(c)), <<>>, NoExit)
       ELSE LET s == active_sessions[session_id[c]] IN
            Step(c, "relay", s, active_sessions, [heap EXCEPT ![s].player1 = c], <<>>, NoExit)

\* a spectre join that creates the session it does not find
SpectreJoinCreates(c) ==
  /\ pc[c] = "accepting"
  /\ client_type[c] = "spectre"
  /\ recv' = NoFrame
  /\ session_id[c] \notin DOMAIN active_sessions
  /\ Step(c, "relay", c, active_sessions @@ (session_id[c] :> c),
          heap @@ (c :> [NewSession(None) EXCEPT !.spectre = c]), <<>>, NoExit)

\* a spectre join that binds the spectre and enters the loop without
\* telling the player1
SpectreJoinSilent(c) ==
  /\ pc[c] = "accepting"
  /\ client_type[c] = "spectre"
  /\ recv' = NoFrame
  /\ IF session_id[c] \notin DOMAIN active_sessions
       THEN Step(c, "rejclose", None, active_sessions, heap,
                 << Event("error", c, c, "no_session") >>, NoExit)
       ELSE LET s == active_sessions[session_id[c]] IN
            IF SlotTaken(heap[s])
              THEN Step(c, "rejclose", s, active_sessions, heap,
                        << Event("error", c, c, "occupied") >>, NoExit)
              ELSE Step(c, "relay", s, active_sessions,
                        [heap EXCEPT ![s].spectre = c], <<>>, NoExit)

\* lines 77-93 (and 96-100 when there is no player1 to notify): accept()
\* has returned for a spectre
SpectreJoin(c) ==
  /\ pc[c] = "accepting"
  /\ client_type[c] = "spectre"
  /\ recv' = NoFrame
  /\ IF session_id[c] \notin DOMAIN active_sessions
       THEN Step(c, "rejclose", None, active_sessions, heap,
                 << Event("error", c, c, "no_session") >>, NoExit)
       ELSE LET s == active_sessions[session_id[c]] IN
            IF SlotTaken(heap[s])
              THEN Step(c, "rejclose", s, active_sessions, heap,
                        << Event("error", c, c, "occupied") >>, NoExit)
              ELSE LET hp == [heap EXCEPT ![s].spectre = c] IN
                   IF hp[s].player1 # None
                     THEN Step(c, "notify", s, active_sessions, hp,
                               << Event("spectre_status", c, hp[s].player1, "connected") >>,
                               NoExit)
                     ELSE Step(c, "relay", s, active_sessions, hp, <<>>, NoExit)

\* a rejection that runs the disconnect handling of the relay loop
RejectCloseCleans(c) ==
  /\ pc[c] = "rejclose"
  /\ recv' = NoFrame
  /\ DisconnectHandler(c, "closed")

\* lines 80-81 and 85-86: the send of the error frame ends.  When it
\* returns, close(code=1008) is called; when it raises, the exception
\* leaves the coroutine.
RejectClose(c) ==
  /\ pc[c] = "rejclose"
  /\ recv' = NoFrame
  /\ \E r \in SendResults(sending[c]) :
       IF r = "ok"
         THEN /\ pc' = [pc EXCEPT ![c] = "closing"]
              /\ last' = [Quiet EXCEPT !.close = [c |-> c, code |-> PolicyViolation]]
              /\ sending' = [sending EXCEPT ![c] = None]
              /\ UNCHANGED << client_type, raw_id, session_id, session, closed,
                              active_sessions, heap >>
         ELSE Step(c, "done", None, active_sessions, heap, <<>>, Raised(NoExit, c))

\* lines 57, 81 and 86: close(code=1008) ends and the coroutine returns;
\* on a transport the client has closed meanwhile the call may raise, as
\* a send does, and the exception leaves the coroutine
CloseReturns(c) ==
  /\ pc[c] = "closing"
  /\ recv' = NoFrame
  /\ \E r \in SendResults(c) :
       Step(c, "done", None, active_sessions, heap, <<>>,
            IF r = "ok" THEN NoExit ELSE Raised(NoExit, c))

\* lines 93-100: the send of spectre_status connected ends.  When it
\* returns the task enters the try block; when it raises, the exception
\* leaves the coroutine, line 93 being outside the try block.
EnterLoop(c) ==
  /\ pc[c] = "notify"
  /\ recv' = NoFrame
  /\ \E r \in SendResults(sending[c]) :
       IF r = "ok"
         THEN IF session_id[c] \in DOMAIN active_sessions
                THEN Step(c, "relay", active_sessions[session_id[c]], active_sessions,
                          heap, <<>>, NoExit)
                ELSE ExceptionHandler(c, "keyerror")
         ELSE Step(c, "done", None, active_sessions, heap, <<>>, Raised(NoExit, c))

\* a relay loop that forwards the position of a player1 without storing it
ReceiveNoStore(c, frame) ==
  /\ pc[c] = "relay"
  /\ ~closed[c]
  /\ recv' = [c |-> c, frame |-> frame]
  /\ IF ~frame.valid
       THEN ExceptionHandler(c, "fault")
       ELSE LET message == frame.msg
                s == session[c] IN
            IF client_type[c] = "player1"
              THEN IF heap[s].spectre # None
                     THEN Step(c, "forward", s, active_sessions, heap,
                               << Event("player_state", c, heap[s].spectre,
                                        [player_pos |-> Get(message, "player_pos", <<0, 0>>),
                                         health |-> Get(message, "health", DefaultHealth)]) >>,
                               NoExit)
                     ELSE Step(c, "relay", s, active_sessions, heap, <<>>, NoExit)
              ELSE IF heap[s].player1 # None
                     THEN Step(c, "forward", s, active_sessions, heap,
                               << Event("spectre_action", c, heap[s].player1,
                                        [action |-> Get(message, "action", "None"),
                                         data |-> Get(message, "data", {})]) >>,
                               NoExit)
                     ELSE Step(c, "relay", s, active_sessions, heap, <<>>, NoExit)

\* a relay loop that records the last action of the spectre in the state
ReceiveStoresAction(c, frame) ==
  /\ pc[c] = "relay"
  /\ ~closed[c]
  /\ recv' = [c |-> c, frame |-> frame]
  /\ IF ~frame.valid
       THEN ExceptionHandler(c, "fault")
       ELSE LET message == frame.msg
                s == session[c] IN
            IF client_type[c] = "player1"
              THEN LET hp == [heap EXCEPT ![s].player_pos = Get(message, "player_pos", <<0, 0>>)] IN
                   IF hp[s].spectre # None
                     THEN Step(c, "forward", s, active_sessions, hp,
                               << Event("player_state", c, hp[s].spectre,
                                        [player_pos |-> hp[s].player_pos,
                                         health |-> Get(message, "health", DefaultHealth)]) >>,
                               NoExit)
                     ELSE Step(c, "relay", s, active_sessions, hp, <<>>, NoExit)
              ELSE LET hq == [heap EXCEPT ![s].spectre_action = Get(message, "action", "None")] IN
                   IF hq[s].player1 # None
                     THEN Step(c, "forward", s, active_sessions, hq,
                               << Event("spectre_action", c, hq[s].player1,
                                        [action |-> Get(message, "action", "None"),
                                         data |-> Get(message, "data", {})]) >>,
                               NoExit)
                     ELSE Step(c, "relay", s, active_sessions, hq, <<>>, NoExit)

\* lines 100-123: receive_text() returns a frame; the task handles it up
\* to the send_text of line 110 or 123, or back to line 100 when there is
\* no peer, or through the except block when the frame is not JSON
Receive(c, frame) ==
  /\ pc[c] = "relay"
  /\ ~closed[c]
  /\ recv' = [c |-> c, frame |-> frame]
  /\ IF ~frame.valid
       THEN ExceptionHandler(c, "fault")
       ELSE LET message == frame.msg
                s == session[c] IN
            IF client_type[c] = "player1"
              THEN LET hp == [heap EXCEPT ![s].player_pos = Get(message, "player_pos", <<0, 0>>)] IN
                   IF hp[s].spectre # None
                     THEN Step(c, "forward", s, active_sessions, hp,
                               << Event("player_state", c, hp[s].spectre,
                                        [player_pos |-> hp[s].player_pos,
                                         health |-> Get(message, "health", DefaultHealth)]) >>,
                               NoExit)
                     ELSE Step(c, "relay", s, active_sessions, hp, <<>>, NoExit)
              ELSE IF heap[s].player1 # None
                     THEN Step(c, "forward", s, active_sessions, heap,
                               << Event("spectre_action", c, heap[s].player1,
                                        [action |-> Get(message, "action", "None"),
                                         data |-> Get(message, "data", {})]) >>,
                               NoExit)
                     ELSE Step(c, "relay", s, active_sessions, heap, <<>>, NoExit)

\* lines 110 and 123: the send of the relayed event ends.  When it returns
\* the task is back in receive_text; when it raises, the except block of
\* the exception runs on the dictionary as it is now.
Forwarded(c) ==
  /\ pc[c] = "forward"
  /\ recv' = NoFrame
  /\ \E r \in SendResults(sending[c]) :
       CASE r = "ok" -> Step(c, "relay", session[c], active_sessions, heap, <<>>, NoExit)
         [] r = "disconnect" -> DisconnectHandler(c, "send_disconnect")
         [] r = "error" -> ExceptionHandler(c, "send_error")

\* line 100 raises WebSocketDisconnect: the client has closed the transport
Disconnect(c) ==
  /\ pc[c] = "relay"
  /\ closed[c]
  /\ recv' = NoFrame
  /\ DisconnectHandler(c, "closed")

\* lines 141-143: the send of game_over ends.  When it returns the session
\* is popped; when it raises, the exception leaves the except block and
\* the coroutine.
PopSession(c) ==
  /\ pc[c] = "gameover"
  /\ recv' = NoFrame
  /\ \E r \in SendResults(sending[c]) :
       IF r = "ok"
         THEN Step(c, "done", None, Pop(session_id[c]), heap, <<>>, NoExit)
         ELSE Step(c, "done", None, active_sessions, heap, <<>>, Raised(NoExit, c))

\* line 149: the send of spectre_status disconnected ends, and the
\* coroutine with it
Leave(c) ==
  /\ pc[c] = "farewell"
  /\ recv' = NoFrame
  /\ \E r \in SendResults(sending[c]) :
       Step(c, "done", None, active_sessions, heap, <<>>,
            IF r = "ok" THEN NoExit ELSE Raised(NoExit, c))

\* the client of a connection closes its side of the transport while the
\* task of the connection is suspended
ClientClose(c) ==
  /\ pc[c] \notin ({"idle"} \cup Ended)
  /\ ~closed[c]
  /\ closed' = [closed EXCEPT ![c] = TRUE]
  /\ last' = Quiet
  /\ recv' = NoFrame
  /\ UNCHANGED << pc, client_type, raw_id, session_id, session,
                  active_sessions, heap, sending >>

Next ==
  \/ \E c \in Conn, raw \in RawIds, ct \in ClientTypes : Connect(c, raw, ct)
  \/ \E c \in Conn : PlayerJoin(c)
  \/ \E c \in Conn : SpectreJoin(c)
  \/ \E c \in Conn : RejectClose(c)
  \/ \E c \in Conn : CloseReturns(c)
  \/ \E c \in Conn : EnterLoop(c)
  \/ \E c \in Conn, frame \in Frames : Receive(c, frame)
  \/ \E c \in Conn : Forwarded(c)
  \/ \E c \in Conn : Disconnect(c)
  \/ \E c \in Conn : PopSession(c)
  \/ \E c \in Conn : Leave(c)
  \/ \E c \in Conn : ClientClose(c)

Spec == Init /\ [][Next]_vars

SpecWide == InitWide /\ [][Next]_vars

\* ---------------------------------------------------- vocabulary of the claims
\* the normalized session ids
NormIds == { Upper(raw) : raw \in RawIds }

\* every character is an upper-case letter (written without Upper)
IsUpperCase(k) == \A i \in DOMAIN k : k[i] \in {"N", "X"}

\* two ids that differ by the case of their letters at most (written without Upper)
SameLetters(a, b) ==
  /\ DOMAIN a = DOMAIN b
  /\ \A i \in DOMAIN a :
       \/ a[i] = b[i]
       \/ {a[i], b[i]} \in { {"n", "N"}, {"x", "X"} }

\* the task of c takes a step
Moves(c) == pc'[c] # pc[c] \/ last'.exit.c = c

\* a player1 whose task is past admission and has not ended
LivePlayer(c, S) ==
  /\ client_type[c] = "player1"
  /\ session_id[c] = S
  /\ pc[c] \in {"relay", "forward", "gameover"}

\* a spectre that is in its relay loop on the session registered under S
ActiveSpectre(c, S) ==
  /\ client_type[c] = "spectre"
  /\ session_id[c] = S
  /\ pc[c] \in {"relay", "forward"}
  /\ ~closed[c]
  /\ S \in DOMAIN active_sessions
  /\ session[c] = active_sessions[S]

\* a spectre whose accept() is about to return
Joining(c, S) ==
  /\ pc[c] = "accepting"
  /\ client_type[c] = "spectre"
  /\ session_id[c] = S

\* the session registered under S has its observer slot empty
EmptySlot(S) ==
  /\ S \in DOMAIN active_sessions
  /\ heap[active_sessions[S]].spectre = None

\* the step sent an event of this type and body to connection t
Sent(l, type, t, body) ==
  \E i \in DOMAIN l.out :
    /\ l.out[i].type = type
    /\ l.out[i].to = t
    /\ l.out[i].body = body

\* the step sent this error to connection c and nothing else
OnlyError(l, c, body) ==
  /\ Len(l.out) = 1
  /\ l.out[1].type = "error"
  /\ l.out[1].to = c
  /\ l.out[1].body = body

\* the step closed connection c with the policy-violation code
ClosedByPolicy(l, c) == l.close = [c |-> c, code |-> PolicyViolation]

\* ------------------------------------------------------------------ C1
\* C1: for every normalized session id S, active_sessions holds a record
\* for S if and only if some player1 connection admitted for S has not yet
\* completed its disconnect handling.
C1_RecordIffLivePrimary ==
  \A S \in NormIds :
    (S \in DOMAIN active_sessions) <=> (\E c \in Conn : LivePlayer(c, S))

\* ------------------------------------------------------------------ C2
\* C2: for every session id S at most one spectre connection is Active on S.
C2_AtMostOneActiveSpectre ==
  \A S \in NormIds : Cardinality({ c \in Conn : ActiveSpectre(c, S) }) <= 1

\* ------------------------------------------------------------------ C3
\* C3: when two spectres are joining the same session whose observer slot
\* is empty, the one whose admission runs first is bound to the slot while
\* the other is still joining; and a spectre whose admission finds the slot
\* held by another connection is rejected with the 'already connected'
\* error and leaves the slot to its holder: the checks and the assignment
\* are one step.
C3_ConcurrentJoinsAtomic ==
  [][ \A S \in NormIds : \A c1, c2 \in Conn :
        /\ ( /\ c1 # c2
             /\ Joining(c1, S) /\ Joining(c2, S) /\ EmptySlot(S)
             /\ Moves(c1) )
           => /\ active_sessions' = active_sessions
              /\ heap'[active_sessions[S]].spectre = c1
              /\ pc'[c1] # "rejclose"
              /\ Joining(c2, S)'
        /\ ( /\ c1 # c2
             /\ Joining(c2, S)
             /\ S \in DOMAIN active_sessions
             /\ heap[active_sessions[S]].spectre = c1
             /\ Moves(c2) )
           => /\ pc'[c2] = "rejclose"
              /\ OnlyError(last', c2, "occupied")
              /\ active_sessions' = active_sessions
              /\ heap' = heap
    ]_vars

\* two spectres were joining together: the later one holds the slot, the
\* earlier one has just been rejected
C3_Witness ==
  \E S \in NormIds : \E c1, c2 \in Conn :
    /\ c2 < c1
    /\ client_type[c1] = "spectre" /\ client_type[c2] = "spectre"
    /\ S \in DOMAIN active_sessions
    /\ heap[active_sessions[S]].spectre = c1
    /\ pc[c1] \in {"notify", "relay"}
    /\ session_id[c2] = S
    /\ pc[c2] = "rejclose"
    /\ OnlyError(last, c2, "occupied")

\* ------------------------------------------------------------------ C4
\* C4: whenever a player1 that reached the relay loop disconnects (its
\* transport is closed), the record of its session id is gone from
\* active_sessions when its task ends.
C4_PrimaryDisconnectRemoves ==
  [][ \A c \in Conn :
        ( /\ client_type[c] = "player1"
          /\ pc[c] \in {"relay", "forward", "gameover"}
          /\ closed[c]
          /\ pc'[c] = "done" )
        => session_id[c] \notin DOMAIN active_sessions'
    ]_vars

C6_PrimaryJoinOneRecord ==
  [][ \A c \in Conn :
        ( /\ pc[c] = "accepting"
          /\ client_type[c] = "player1"
          /\ Moves(c) )
        => LET ks == { k \in DOMAIN active_sessions : SameLetters(k, raw_id[c]) }
               ks2 == { k \in DOMAIN active_sessions' : SameLetters(k, raw_id[c]) } IN
           /\ Cardinality(ks2) = 1
           /\ \A k \in ks2 : IsUpperCase(k)
           /\ \A k \in ks2 : heap'[active_sessions'[k]].player1 = c
           /\ IF ks = {}
                THEN /\ DOMAIN active_sessions' = DOMAIN active_sessions \cup ks2
                     /\ \A k \in ks2 :
                          heap'[active_sessions'[k]] =
                            [player1 |-> c, spectre |-> None,
                             player_pos |-> <<0, 0>>, spectre_action |-> "None"]
                ELSE /\ active_sessions' = active_sessions
                     /\ \A k \in ks :
                          heap'[active_sessions[k]] =
                            [heap[active_sessions[k]] EXCEPT !.player1 = c]
    ]_vars

\* a second player1 has joined, with another casing of the id, the session
\* that has a spectre and a reported position
C6_Witness ==
  \E c, d \in Conn :
    /\ c # d
    /\ pc[c] = "relay" /\ pc[d] = "relay"
    /\ client_type[c] = "player1" /\ client_type[d] = "player1"
    /\ session[c] = session[d]
    /\ DOMAIN active_sessions = { <<"N", "X">> }
    /\ active_sessions[<<"N", "X">>] = c
    /\ heap[c].player1 = d
    /\ heap[c].spectre # None
    /\ heap[c].player_pos = <<3, 4>>

\* ------------------------------------------------------------------ C7
\* the step leaves active_sessions and every session object as they are
\* (an object nothing refers to any more may be dropped)
RegistryUntouched ==
  /\ active_sessions' = active_sessions
  /\ \A r \in DOMAIN heap' : r \in DOMAIN heap /\ heap'[r] = heap[r]
  /\ \A S \in DOMAIN active_sessions : active_sessions[S] \in DOMAIN heap'

\* the send of the error has returned and close(code=1008) is called
ErrorThenClose(c) ==
  /\ pc'[c] = "closing"
  /\ ClosedByPolicy(last', c)
  /\ last'.out = <<>>
  /\ last'.exit = NoExit

\* the client has closed its transport, the send of the error has raised
\* and the exception has ended the task: no close is called
ErrorSendRaised(c) ==
  /\ closed[c]
  /\ pc'[c] = "done"
  /\ last'.exit = Raised(NoExit, c)
  /\ last'.close = NoClose
  /\ last'.out = <<>>

\* a spectre join against an id active_sessions does not hold is sent the
\* error and is suspended in that send, with no registry change
NoSessionJoin(c) ==
  ( /\ Joining(c, session_id[c])
    /\ session_id[c] \notin DOMAIN active_sessions
    /\ Moves(c) )
  => /\ pc'[c] = "rejclose"
     /\ session'[c] = None
     /\ OnlyError(last', c, "no_session")
     /\ last'.close = NoClose
     /\ RegistryUntouched

\* a rejected connection whose close is pending only ends, and a rejected
\* connection never enters the relay loop
RejectedEnds(c) ==
  /\ ( pc[c] = "closing" /\ Moves(c) )
       => /\ pc'[c] = "done"
          /\ last'.out = <<>> /\ last'.close = NoClose
          /\ last'.exit \in {NoExit, Raised(NoExit, c)}
          /\ ~closed[c] => last'.exit = NoExit
          /\ RegistryUntouched
  /\ pc[c] \in {"rejclose", "closing"} => pc'[c] \in {"rejclose", "closing", "done"}

\* C7 as claimed: a spectre join against an id that active_sessions does
\* not hold is sent an error, then always closed with code 1008, and never
\* enters the relay loop; active_sessions and the session objects stay as
\* they were.
C7_NoSuchSessionRejected ==
  [][ \A c \in Conn :
        /\ NoSessionJoin(c)
        /\ ( pc[c] = "rejclose" /\ session[c] = None /\ Moves(c) )
           => ErrorThenClose(c) /\ RegistryUntouched
        /\ RejectedEnds(c)
    ]_vars

\* C7 as amended: a spectre join against an id that active_sessions does
\* not hold is sent an error; when that send returns the connection is
\* closed with code 1008, and when the client has closed its transport
\* meanwhile the send may raise and the task then ends without a close;
\* the connection never enters the relay loop and active_sessions and the
\* session objects stay as they were.
C7_NoSuchSessionRejectedOrGone ==
  [][ \A c \in Conn :
        /\ NoSessionJoin(c)
        /\ ( pc[c] = "rejclose" /\ session[c] = None /\ Moves(c) )
           => /\ ErrorThenClose(c) \/ ErrorSendRaised(c)
              /\ ~closed[c] => ErrorThenClose(c)
              /\ RegistryUntouched
        /\ RejectedEnds(c)
    ]_vars

\* a spectre that joined an id without a session has been sent the error
\* and close(code=1008) has been called
C7_Witness ==
  \E c \in Conn :
    /\ client_type[c] = "spectre"
    /\ pc[c] = "closing"
    /\ session[c] = None
    /\ ClosedByPolicy(last, c)
    /\ active_sessions = <<>>
    /\ \A d \in Conn : client_type[d] = "player1" => pc[d] = "idle"

\* ------------------------------------------------------------------ C8
\* a spectre join against a session whose observer slot is set is sent the
\* error and is suspended in that send, with no registry change
OccupiedJoin(c) ==
  ( /\ Joining(c, session_id[c])
    /\ session_id[c] \in DOMAIN active_sessions
    /\ ~EmptySlot(session_id[c])
    /\ Moves(c) )
  => /\ pc'[c] = "rejclose"
     /\ session'[c] = active_sessions[session_id[c]]
     /\ OnlyError(last', c, "occupied")
     /\ last'.close = NoClose
     /\ RegistryUntouched

\* no session object refers to a connection that is being rejected
RejectedUnbound(c) ==
  pc'[c] \in {"rejclose", "closing"}
    => \A r \in DOMAIN heap' : heap'[r].player1 # c /\ heap'[r].spectre # c

\* C8 as claimed: a spectre join against a session whose observer slot is
\* set is rejected with an error and then always a close with code 1008;
\* no step of the rejection changes active_sessions or a session object or
\* sends anything to another connection, and no session object ever refers
\* to the rejected connection.
C8_OccupiedSlotRejected ==
  [][ \A c \in Conn :
        /\ OccupiedJoin(c)
        /\ ( pc[c] = "rejclose" /\ session[c] # None /\ Moves(c) )
           => ErrorThenClose(c) /\ RegistryUntouched
        /\ RejectedEnds(c)
        /\ RejectedUnbound(c)
    ]_vars

\* C8 as amended: as claimed, except that the close with code 1008 follows
\* when the send of the error returns; when the client has closed its
\* transport meanwhile the send may raise and the task then ends without a
\* close.
C8_OccupiedSlotRejectedOrGone ==
  [][ \A c \in Conn :
        /\ OccupiedJoin(c)
        /\ ( pc[c] = "rejclose" /\ session[c] # None /\ Moves(c) )
           => /\ ErrorThenClose(c) \/ ErrorSendRaised(c)
              /\ ~closed[c] => ErrorThenClose(c)
              /\ RegistryUntouched
        /\ RejectedEnds(c)
        /\ RejectedUnbound(c)
    ]_vars

\* a spectre that joined a session with a bound spectre has been sent the
\* error and close(code=1008) has been called; the session still has its
\* spectre, its player1 and its state
C8_Witness ==
  \E S \in NormIds : \E c \in Conn :
    /\ client_type[c] = "spectre"
    /\ pc[c] = "closing"
    /\ ClosedByPolicy(last, c)
    /\ S \in DOMAIN active_sessions
    /\ session[c] = active_sessions[S]
    /\ heap[active_sessions[S]].spectre \notin {None, c}
    /\ pc[heap[active_sessions[S]].spectre] = "relay"
    /\ LivePlayer(heap[active_sessions[S]].player1, S)
    /\ heap[active_sessions[S]].player_pos = <<3, 4>>

\* ------------------------------------------------------------------ C9
\* C9 as claimed: a client_type that matches 'player1' or 'spectre'
\* case-insensitively is accepted; any other is closed with code 1008 and
\* active_sessions is not written.
C9_RoleCaseInsensitive ==
  [][ \A c \in Conn :
        ( pc[c] = "idle" /\ pc'[c] # "idle" )
        => IF LowerCase(client_type'[c]) \in {"player1", "spectre"}
             THEN pc'[c] = "accepting" /\ last'.close.c = None
             ELSE /\ pc'[c] = "closing"
                  /\ ClosedByPolicy(last', c)
                  /\ active_sessions' = active_sessions
                  /\ heap' = heap
    ]_vars

\* C9 as amended: a client_type that is exactly 'player1' or 'spectre' is
\* accepted; any other, a case variant such as 'Player1' included, is closed
\* with code 1008 and active_sessions is not written.
C9_RoleExact ==
  [][ \A c \in Conn :
        ( pc[c] = "idle" /\ pc'[c] # "idle" )
        => IF client_type'[c] \in {"player1", "spectre"}
             THEN pc'[c] = "accepting" /\ last'.close.c = None
             ELSE /\ pc'[c] = "closing"
                  /\ ClosedByPolicy(last', c)
                  /\ last'.out = <<>>
                  /\ active_sessions' = active_sessions
                  /\ heap' = heap
    ]_vars

\* 'Player1' has been closed with 1008 while a session is registered
C9_Witness ==
  \E c \in Conn :
    /\ client_type[c] = "Player1"
    /\ pc[c] = "closing"
    /\ ClosedByPolicy(last, c)
    /\ active_sessions # <<>>

\* ----------------------------------------------------------------- C10
\* C10: a fault in the relay loop has the effect of a transport closure:
\* for a player1 the record is removed and the bound spectre is sent
\* game_over; for a spectre the
\* observer slot is cleared and the bound player1 is sent spectre_status
\* 'disconnected'.
C10_FaultLikeClosure ==
  [][ \A c \in Conn :
        ( /\ last'.exit.c = c
          /\ last'.exit.why \in {"fault", "send_error"}
          /\ session_id[c] \in DOMAIN active_sessions )
        => LET r == active_sessions[session_id[c]] IN
           IF client_type[c] = "player1"
             THEN /\ session_id[c] \notin DOMAIN active_sessions'
                  /\ heap[r].spectre # None
                       => Sent(last', "game_over", heap[r].spectre, <<>>)
             ELSE /\ heap'[r].spectre = None
                  /\ heap[r].player1 # None
                       => Sent(last', "spectre_status", heap[r].player1, "disconnected")
    ]_vars

\* ----------------------------------------------------------------- C11
\* C11: once the task of a connection has ended, no record of
\* active_sessions holds that connection in its player1 slot or in its
\* spectre slot.
C11_NoStaleBinding ==
  \A c \in Conn :
    pc[c] \in Ended =>
      \A S \in DOMAIN active_sessions :
        /\ heap[active_sessions[S]].player1 # c
        /\ heap[active_sessions[S]].spectre # c

\* ----------------------------------------------------------------- C12
\* the step binds spectre c in the observer slot of the record r
Attaches(c, r) ==
  /\ pc[c] = "accepting"
  /\ client_type[c] = "spectre"
  /\ r \in DOMAIN heap /\ r \in DOMAIN heap'
  /\ heap[r].spectre # c
  /\ heap'[r].spectre = c

\* the step sends a spectre_action that originates from c
ForwardsAction(c) ==
  \E i \in DOMAIN last'.out :
    last'.out[i].type = "spectre_action" /\ last'.out[i].from = c

\* C12: every step that binds a spectre to a record whose player1 slot is
\* bound sends that player1 exactly the spectre_status 'connected' event
\* and suspends the spectre in that send, and it does so before the
\* spectre forwards any spectre_action: the spectre forwards only from its
\* relay loop, and it enters the loop only when that send has returned.
C12_AttachNotifiesFirst ==
  [][ \A c \in Conn :
        /\ \A r \in DOMAIN heap :
             ( Attaches(c, r) /\ heap[r].player1 # None ) =>
               /\ Len(last'.out) = 1
               /\ last'.out[1].type = "spectre_status"
               /\ last'.out[1].body = "connected"
               /\ last'.out[1].from = c
               /\ last'.out[1].to = heap[r].player1
               /\ pc'[c] = "notify"
               /\ sending'[c] = heap[r].player1
        /\ ForwardsAction(c) => pc[c] = "relay"
        /\ ( pc[c] \notin {"relay", "forward"} /\ pc'[c] = "relay"
             /\ client_type'[c] = "spectre" )
             => pc[c] = "notify"
    ]_vars

\* a spectre whose attach told the player1 forwards its first action to it
C12_Witness ==
  \E c \in Conn :
    /\ pc[c] = "forward"
    /\ client_type[c] = "spectre"
    /\ recv.c = c
    /\ Len(last.out) = 1
    /\ last.out[1].type = "spectre_action"
    /\ last.out[1].from = c
    /\ heap[session[c]].spectre = c
    /\ heap[session[c]].player1 = last.out[1].to

\* ----------------------------------------------------------------- C13
\* the step is the disconnect handling of player1 c taking the record of
\* its session id out of active_sessions
DisconnectRemoves(c) ==
  /\ client_type[c] = "player1"
  /\ Moves(c)
  /\ pc[c] = "gameover" \/ last'.exit.why \in {"closed", "send_disconnect"}
  /\ session_id[c] \in DOMAIN active_sessions
  /\ session_id[c] \notin DOMAIN active_sessions'

\* C13: when the disconnect handling of a player1 removes a record whose
\* observer slot is bound, that spectre has been sent game_over by the
\* handler; and a player1 join that finds no record under its id creates
\* a new record with position [0,0], no spectre action and an empty
\* observer slot.
C13_GameOverThenReusable ==
  [][ \A c \in Conn :
        /\ DisconnectRemoves(c) =>
             LET o == heap[active_sessions[session_id[c]]].spectre IN
             o # None =>
               \/ pc[c] = "gameover" /\ sending[c] = o
               \/ Sent(last', "game_over", o, <<>>)
        /\ ( /\ pc[c] = "accepting"
             /\ client_type[c] = "player1"
             /\ session_id[c] \notin DOMAIN active_sessions
             /\ Moves(c) )
           => /\ session_id[c] \in DOMAIN active_sessions'
              /\ active_sessions'[session_id[c]] \notin DOMAIN heap
              /\ heap'[active_sessions'[session_id[c]]]
                   = [player1 |-> c, spectre |-> None,
                      player_pos |-> <<0, 0>>, spectre_action |-> "None"]
    ]_vars

\* ----------------------------------------------------------------- C14
\* C14: forwarding is role-pure.  A message received from a player1 never
\* causes a spectre_action event and a message received from a spectre
\* never causes a player_state event; player_state events are sent by
\* player1 tasks to spectre connections only, spectre_action events by
\* spectre tasks to player1 connections only.
C14_RolePureForwarding ==
  \A i \in DOMAIN last.out :
    LET e == last.out[i] IN
    /\ e.type = "player_state" =>
         /\ recv.c = e.from
         /\ client_type[e.from] = "player1"
         /\ client_type[e.to] = "spectre"
    /\ e.type = "spectre_action" =>
         /\ recv.c = e.from
         /\ client_type[e.from] = "spectre"
         /\ client_type[e.to] = "player1"

\* a spectre_action has been forwarded to a player1 that joined an existing
\* session, and not to the player1 that created it
C14_Witness ==
  \E i \in DOMAIN last.out :
    /\ last.out[i].type = "spectre_action"
    /\ client_type[last.out[i].from] = "spectre"
    /\ pc[last.out[i].to] = "relay"
    /\ session[last.out[i].to] # last.out[i].to

\* ----------------------------------------------------------------- C15
\* the events of a step that relay a message
RelayEvents(l) ==
  { i \in DOMAIN l.out : l.out[i].type \in {"player_state", "spectre_action"} }

\* the field of a message, or the default when the message has no such field
Field(m, key, default) == IF key \in DOMAIN m THEN m[key] ELSE default

\* the event that relays message m
RelayOf(type, m) ==
  IF type = "player_state"
    THEN [player_pos |-> Field(m, "player_pos", <<0, 0>>),
          health |-> Field(m, "health", DefaultHealth)]
    ELSE [action |-> Field(m, "action", "None"),
          data |-> Field(m, "data", {})]

\* C15: forwarding keeps the order of each sender.  A forwarded event is
\* sent in the step in which its sender's task received the message it
\* relays, before anything else the step sends, and a step relays one
\* message at most: the event of a message is out before the next message
\* of the same sender is received, and no event is out before its message.
C15_FifoPerSender ==
  /\ Cardinality(RelayEvents(last)) <= 1
  /\ \A i \in RelayEvents(last) :
       /\ i = 1
       /\ recv.c = last.out[i].from
       /\ recv.frame.valid
       /\ last.out[i].body = RelayOf(last.out[i].type, recv.frame.msg)

\* the message a player1 has just received, one without a position, is
\* the one the step relays to the spectre
C15_Witness ==
  \E c \in Conn :
    /\ recv = [c |-> c, frame |-> [valid |-> TRUE, msg |-> <<>>]]
    /\ pc[c] = "forward"
    /\ client_type[c] = "player1"
    /\ last.out = << Event("player_state", c, heap[session[c]].spectre,
                           [player_pos |-> <<0, 0>>, health |-> DefaultHealth]) >>

\* ----------------------------------------------------------------- C16
\* the step is the task of c, of this role, receiving a well-formed message
Handles(c, role) ==
  /\ pc[c] = "relay"
  /\ client_type[c] = role
  /\ recv'.c = c
  /\ recv'.frame.valid

\* the player_state events of a step
PlayerStates(l) == { i \in DOMAIN l.out : l.out[i].type = "player_state" }

\* C16: a message from a player1 stores the message's player_pos ([0,0]
\* when it has none) in the session and stores nothing else, health
\* included; with a spectre bound exactly one player_state event with
\* that position and the message's health (100 when it has none) is sent
\* to it; with no spectre bound nothing is sent and no error is raised.
C16_PlayerMessage ==
  [][ \A c \in Conn :
        Handles(c, "player1") =>
          LET m == recv'.frame.msg
              s == session[c]
              o == heap[s].spectre
              pos == Field(m, "player_pos", <<0, 0>>) IN
          /\ s \in DOMAIN heap' =>
               heap'[s] = [player1 |-> heap[s].player1, spectre |-> o,
                           player_pos |-> pos, spectre_action |-> heap[s].spectre_action]
          /\ o # None =>
               /\ PlayerStates(last') = {1}
               /\ last'.out[1].from = c
               /\ last'.out[1].to = o
               /\ last'.out[1].body
                    = [player_pos |-> pos, health |-> Field(m, "health", DefaultHealth)]
          /\ o = None =>
               /\ last'.out = <<>>
               /\ last'.exit = NoExit
               /\ pc'[c] = "relay"
               /\ heap'[s].player_pos = pos
    ]_vars

\* a player1 has stored the position of a message with no spectre bound,
\* and nothing was sent
C16_Witness ==
  \E c \in Conn :
    /\ recv.c = c
    /\ recv.frame.valid
    /\ pc[c] = "relay"
    /\ client_type[c] = "player1"
    /\ "health" \in DOMAIN recv.frame.msg
    /\ heap[session[c]].player_pos = <<3, 4>>
    /\ heap[session[c]].spectre = None
    /\ last.out = <<>>

\* ----------------------------------------------------------------- C17
\* the spectre_action events of a step
SpectreActions(l) == { i \in DOMAIN l.out : l.out[i].type = "spectre_action" }

\* the step leaves every session object that survives it as it is
HeapKept == \A r \in DOMAIN heap' : r \in DOMAIN heap /\ heap'[r] = heap[r]

\* C17: a message from a spectre changes no session state (every stored
\* position is untouched and the stored spectre action is None in every
\* reachable state), changes no slot and does not touch active_sessions;
\* it sends exactly one spectre_action event with the message's action
\* and data ({} when it has none) to the player1 of the session, and the
\* task is suspended in that send; when the send returns the task is
\* back in the loop and nothing else has changed or been sent.
C17_SpectreMessage ==
  [][ /\ \A r \in DOMAIN heap' : heap'[r].spectre_action = "None"
      /\ \A c \in Conn :
           /\ Handles(c, "spectre") =>
                LET m == recv'.frame.msg
                    p == heap[session[c]].player1 IN
                /\ active_sessions' = active_sessions
                /\ HeapKept
                /\ last'.exit = NoExit
                /\ p # None =>
                     /\ SpectreActions(last') = {1}
                     /\ Len(last'.out) = 1
                     /\ last'.out[1].from = c
                     /\ last'.out[1].to = p
                     /\ last'.out[1].body = [action |-> Field(m, "action", "None"),
                                             data |-> Field(m, "data", {})]
                     /\ pc'[c] = "forward"
                /\ p = None => last'.out = <<>> /\ pc'[c] = "relay"
           /\ ( client_type[c] = "spectre" /\ pc[c] = "forward" /\ pc'[c] = "relay" ) =>
                /\ active_sessions' = active_sessions
                /\ HeapKept
                /\ last' = Quiet
    ]_vars

\* a spectre has had an action without data forwarded to the player1 of a
\* session whose stored position is not the default
C17_Witness ==
  \E c \in Conn :
    /\ recv.c = c
    /\ recv.frame.valid
    /\ pc[c] = "forward"
    /\ client_type[c] = "spectre"
    /\ heap[session[c]].spectre = c
    /\ heap[session[c]].player_pos = <<3, 4>>
    /\ heap[session[c]].spectre_action = "None"
    /\ last.out = << Event("spectre_action", c, heap[session[c]].player1,
                           [action |-> "None", data |-> {}]) >>

\* ----------------------------------------------------------------- C18
\* C18: whenever the relay loop of a connection processes a message, the
\* record it reads and writes, the one it captured at loop entry, is the
\* record active_sessions holds under its session id at that moment.
C18_LoopOnRegisteredRecord ==
  [][ \A c \in Conn :
        ( pc[c] = "relay" /\ recv'.c = c /\ recv'.frame.valid ) =>
          /\ session_id[c] \in DOMAIN active_sessions
          /\ session[c] = active_sessions[session_id[c]]
    ]_vars

\* ----------------------------------------------------------------- C19
\* the step belongs to the handling of a transport closure of c
HandlesDisconnect(c) ==
  /\ Moves(c)
  /\ \/ pc[c] = "gameover"
     \/ last'.exit.c = c /\ last'.exit.why \in {"closed", "send_disconnect"}

\* the step sent an event of this type
SentType(l, type) == \E i \in DOMAIN l.out : l.out[i].type = type

\* C19: the disconnect handling of a connection touches its own binding
\* only.  When the record under its session id does not hold the
\* connection in the slot of its role (or there is no record), the
\* handling leaves active_sessions and the slots of the record unchanged
\* and sends neither game_over nor spectre_status.
C19_DisconnectOwnBindingOnly ==
  [][ \A c \in Conn :
        HandlesDisconnect(c) =>
          LET r == Lookup(session_id[c])
              bound == /\ r # None
                       /\ IF client_type[c] = "player1"
                            THEN heap[r].player1 = c
                            ELSE heap[r].spectre = c IN
          ~bound =>
            /\ active_sessions' = active_sessions
            /\ r # None => /\ r \in DOMAIN heap'
                           /\ heap'[r] = heap[r]
            /\ ~SentType(last', "game_over")
            /\ ~SentType(last', "spectre_status")
    ]_vars

\* ----------------------------------------------------------------- C20
\* C20: an event is sent only to a connection whose task has not ended;
\* in particular no spectre_action goes to a player1 whose disconnect has
\* been handled.
C20_SentOnlyToLive ==
  \A i \in DOMAIN last.out : pc[last.out[i].to] \notin Ended

====
